---- MODULE Spec2Model ----
(***************************************************************************)
(* Model of cloudflare-warp-speedtest-rs (src/src/main.rs, src/src/args.rs)*)
(*                                                                         *)
(* main() parses the arguments, generates the candidate endpoints          *)
(* (generate_ipv4), probes them through a stream of per-endpoint futures   *)
(* run under buffer_unordered(cli.threads), collects the surviving         *)
(* TestResults, sorts them by latency and logs a summary.                  *)
(*                                                                         *)
(* Time: the model has a discrete clock `now'.  The only step that takes   *)
(* time is the timed wait of speedtest (timeout(1s, recv_from)); every     *)
(* other step (spawning a future, pb.inc, bind, send_to, pushing a result) *)
(* is instantaneous, and the clock does not advance while such a step is   *)
(* enabled.  The clock does not advance past the deadline of a timed wait. *)
(*                                                                         *)
(* Not modelled: the --completion early return (main.rs 38-43), the        *)
(* contents of the handshake packet and of the received datagram.          *)
(***************************************************************************)
EXTENDS Integers, Sequences, FiniteSets, TLC

(* ---------------------------- bounds ----------------------------------- *)
\* largest number of probes a run is configured for (--addresses * --attempts)
MaxProbes == 4
\* largest --threads value
MaxThreads == 2
\* number of addresses of the universe that are kept (the first ones)
MaxIps == 3
\* number of entries of the port list that are kept (the first ones)
NumPorts == 1
\* clock ticks per second
TicksPerSec == 1
\* largest number of ticks by which the poll of an expired wait is late
MaxLate == 1
\* --addresses of the runs that rank more endpoints than are reported
MaxRanked == 6

(* ------------------------ program constants ---------------------------- *)
\* Duration::from_secs(1)
TimeoutSecs == 1
\* alive_addrs.iter().take(5)
TopN == 5
\* the blocks of v4_ranges are /24
PrefixLen == 24

\* the timeout in clock ticks
Timeout == TimeoutSecs * TicksPerSec

\* Duration::as_millis of a duration of d clock ticks (truncating)
AsMillis(d) == (d * 1000) \div TicksPerSec

\* the blocks of v4_ranges: the first three octets of each "a.b.c.0/24"
v4_ranges ==
  << <<162, 159, 192>>, <<162, 159, 193>>, <<162, 159, 195>>, <<162, 159, 204>>,
     <<188, 114, 96>>, <<188, 114, 97>>, <<188, 114, 98>>, <<188, 114, 99>> >>

PortsAll ==
  << 500, 854, 859, 864, 878, 880, 890, 891, 894, 903, 908, 928, 934, 939, 942,
     943, 945, 946, 955, 968, 987, 988, 1002, 1010, 1014, 1018, 1070, 1074, 1180,
     1387, 1701, 2408, 4500, 5050, 5242, 6515, 7103, 7152, 7156, 7281, 7559, 8319,
     8742, 8854, 8886 >>

ports == SubSeq(PortsAll, 1, NumPorts)

Range(s) == {s[j] : j \in DOMAIN s}

RECURSIVE Pow2(_)
Pow2(n) == IF n = 0 THEN 1 ELSE 2 * Pow2(n - 1)

\* Ipv4Network::iter: every address of the block, network address first
NetworkIter(net) ==
  [h \in 1..Pow2(32 - PrefixLen) |-> <<net[1], net[2], net[3], h - 1>>]

RECURSIVE FlatMap(_, _)
FlatMap(nets, j) ==
  IF j > Len(nets) THEN << >> ELSE NetworkIter(nets[j]) \o FlatMap(nets, j + 1)

\* v4_ranges.iter().flat_map(|cidr| network.iter()).collect(), cut to MaxIps
all_ips == SubSeq(FlatMap(v4_ranges, 1), 1, MaxIps)

UniverseSize == Len(all_ips)

\* mutant of choose_multiple: each slot is drawn independently (with replacement)
choose_with_replacement(items, amount) ==
  IF Len(items) <= amount THEN {items} ELSE [1..amount -> Range(items)]

\* IteratorRandom::choose_multiple: the reservoir is the first `amount` items;
\* the i-th later item draws k in 0..i+amount and overwrites slot k if k < amount.
\* The set of reservoirs the random draws can produce.
RECURSIVE ReservoirStep(_, _, _, _)
ReservoirStep(R, items, amount, i) ==
  IF amount + i + 1 > Len(items) THEN R
  ELSE ReservoirStep(
         { IF kk < amount THEN [r EXCEPT ![kk + 1] = items[amount + i + 1]] ELSE r :
             r \in R, kk \in 0..(i + amount) },
         items, amount, i + 1)

choose_multiple(items, amount) ==
  IF Len(items) <= amount THEN {items}
  ELSE ReservoirStep({SubSeq(items, 1, amount)}, items, amount, 0)

\* .map(|&addr| SocketAddr::V4(SocketAddrV4::new(*addr, *ports.choose(rng))))
WithPorts(chosen) ==
  { [j \in 1..Len(chosen) |-> [ip |-> chosen[j], port |-> p[j]]] :
      p \in [1..Len(chosen) -> Range(ports)] }

\* the vectors generate_ipv4(amount) can return
generate_ipv4(amount) ==
  UNION { WithPorts(chosen) : chosen \in choose_multiple(all_ips, amount) }

(* ------------------------------ state ---------------------------------- *)
VARIABLES
  cli,          \* Args: addresses, attempts, threads, mode; debug = log_enabled!(Debug)
  pc,           \* position of main: "start", "probing", "done", "panicked"
  addrs,        \* the candidates generate_ipv4 returned
  progress_bar, \* Option<Arc<ProgressBar>>: [some, len, pos, finished]
  nextIdx,      \* position of the iterator under the stream (1-based)
  streamDone,   \* the fused stream has returned None to buffer_unordered
  tpc,          \* per endpoint future: "pending", "ready", "bound", "waiting", "finished"
  k,            \* per endpoint future: attempts resolved
  latencies,    \* per endpoint future: the Vec of successful latencies
  start,        \* per endpoint future: Instant::now() of the current attempt
  sock,         \* per endpoint future: sockets currently open
  alive_addrs,  \* Vec<TestResult> being collected, sorted at the end
  report,       \* what main logs: [working, total, top]
  now,          \* the clock
  started,      \* history: attempts begun per endpoint
  sent,         \* history: datagrams sent
  failed,       \* history: attempts that ended in an error or timeout, per endpoint
  taskStart,    \* history: clock when the endpoint's future was created
  taskEnd,      \* history: clock when the endpoint's future completed
  unsorted      \* history: alive_addrs as collected, before the sort

vars == << cli, pc, addrs, progress_bar, nextIdx, streamDone, tpc, k, latencies,
           start, sock, alive_addrs, report, now, started, sent, failed,
           taskStart, taskEnd, unsorted >>

Tasks == DOMAIN tpc

\* the futures held by buffer_unordered's in_progress_queue
InProgress == {i \in Tasks : tpc[i] \in {"ready", "bound", "waiting"}}

NoBar == [some |-> FALSE, len |-> 0, pos |-> 0, finished |-> FALSE]

\* if let Some(pb) = pb.as_ref() { pb.inc(1) }
PbInc(pb) == IF pb.some THEN [pb EXCEPT !.pos = @ + 1] ELSE pb

RECURSIVE PbIncTimes(_, _)
PbIncTimes(pb, n) == IF n = 0 THEN pb ELSE PbIncTimes(PbInc(pb), n - 1)

\* mutant of CanSpawn: one future too many is admitted
CanSpawnOneMore == Cardinality(InProgress) <= cli.threads

\* mutant of CanSpawn: one future too few is admitted
CanSpawnOneLess == Cardinality(InProgress) + 1 < cli.threads

\* buffer_unordered polls the stream only while in_progress_queue.len() < max
CanSpawn == Cardinality(InProgress) < cli.threads

\* mutant of LoopContinues: an attempt is made only when there is a bar to tick
LoopNeedsBar(kk) == kk < cli.attempts /\ progress_bar.some

\* mutant of LoopContinues: the range of the loop includes its upper end
LoopContinuesInclusive(kk) == kk <= cli.attempts

\* for _ in 0..cli.attempts: another iteration follows kk completed ones
LoopContinues(kk) == kk < cli.attempts

RECURSIVE Sum(_)
Sum(s) == IF s = << >> THEN 0 ELSE Head(s) + Sum(Tail(s))

\* mutant of AvgLatency: the sum is divided by the number of attempts
AvgOverAttempts(lats) == Sum(lats) \div cli.attempts

\* latencies.iter().sum::<u128>() / latencies.len() as u128
AvgLatency(lats) == Sum(lats) \div Len(lats)

\* mutant of TaskResult: an endpoint without a success is reported too
TaskResultAlways(addr, lats) ==
  << [addr |-> addr, latency |-> IF lats = << >> THEN 0 ELSE AvgLatency(lats)] >>

\* the value of the endpoint's async block, after filter_map: nothing or one TestResult
TaskResult(addr, lats) ==
  IF lats = << >> THEN << >>
  ELSE << [addr |-> addr, latency |-> AvgLatency(lats)] >>

RECURSIVE InsertByKeyReversed(_, _)
\* mutant of InsertByKey: the comparison is reversed
InsertByKeyReversed(s, x) ==
  IF s = << >> THEN << x >>
  ELSE IF Head(s).latency >= x.latency
       THEN << Head(s) >> \o InsertByKeyReversed(Tail(s), x)
       ELSE << x >> \o s

\* sort_by_key(|res| res.latency): a stable sort
RECURSIVE InsertByKey(_, _)
InsertByKey(s, x) ==
  IF s = << >> THEN << x >>
  ELSE IF Head(s).latency <= x.latency THEN << Head(s) >> \o InsertByKey(Tail(s), x)
  ELSE << x >> \o s

\* mutant of SortByKey: the vector is left in the order of completion
SortByKeyNone(s) == s

RECURSIVE SortByKey(_)
SortByKey(s) ==
  IF s = << >> THEN << >>
  ELSE InsertByKey(SortByKey(SubSeq(s, 1, Len(s) - 1)), s[Len(s)])

\* mutant of Take: one entry more is reported
TakeOneMore(s, n) == SubSeq(s, 1, IF Len(s) < n + 1 THEN Len(s) ELSE n + 1)

\* alive_addrs.iter().take(n)
Take(s, n) == SubSeq(s, 1, IF Len(s) < n THEN Len(s) ELSE n)

(* ------------------------------ Init ----------------------------------- *)
Modes == {"Ipv4", "Ipv6"}

\* the configurations of at most maxProbes probes
Configs(maxProbes, debugSet) ==
  { c \in [addresses : 0..maxProbes, attempts : 0..maxProbes, threads : 0..MaxThreads,
           mode : Modes, debug : debugSet] :
      c.addresses * c.attempts <= maxProbes }

InitWith(maxProbes, debugSet) ==
  /\ cli \in Configs(maxProbes, debugSet)
  /\ pc = "start"
  /\ addrs = << >>
  /\ progress_bar = NoBar
  /\ nextIdx = 1
  /\ streamDone = FALSE
  /\ tpc = << >>
  /\ k = << >>
  /\ latencies = << >>
  /\ start = << >>
  /\ sock = << >>
  /\ alive_addrs = << >>
  /\ report = [working |-> 0, total |-> 0, top |-> << >>]
  /\ now = 0
  /\ started = << >>
  /\ sent = 0
  /\ failed = << >>
  /\ taskStart = << >>
  /\ taskEnd = << >>
  /\ unsorted = << >>

Init == InitWith(MaxProbes, BOOLEAN)

(* ----------------------------- actions --------------------------------- *)
\* main.rs 45-73: generate the candidates, build the progress bar and the stream
Generate ==
  /\ pc = "start"
  /\ cli.mode = "Ipv4"
  /\ \E a \in generate_ipv4(cli.addresses) :
       /\ addrs' = a
       /\ progress_bar' =
            IF ~cli.debug
            THEN [some |-> TRUE, len |-> Len(a) * cli.attempts, pos |-> 0,
                  finished |-> FALSE]
            ELSE NoBar
       /\ tpc' = [i \in 1..Len(a) |-> "pending"]
       /\ k' = [i \in 1..Len(a) |-> 0]
       /\ latencies' = [i \in 1..Len(a) |-> << >>]
       /\ start' = [i \in 1..Len(a) |-> 0]
       /\ sock' = [i \in 1..Len(a) |-> 0]
       /\ started' = [i \in 1..Len(a) |-> 0]
       /\ failed' = [i \in 1..Len(a) |-> 0]
       /\ taskStart' = [i \in 1..Len(a) |-> 0]
       /\ taskEnd' = [i \in 1..Len(a) |-> 0]
  /\ pc' = "probing"
  /\ UNCHANGED << cli, nextIdx, streamDone, alive_addrs, report, now, sent, unsorted >>

\* mutant of Ipv6Todo: the branch yields no candidates and the run goes on
Ipv6Empty ==
  /\ pc = "start"
  /\ cli.mode = "Ipv6"
  /\ pc' = "probing"
  /\ UNCHANGED << cli, addrs, progress_bar, nextIdx, streamDone, tpc, k, latencies,
                  start, sock, alive_addrs, report, now, started, sent, failed,
                  taskStart, taskEnd, unsorted >>

\* main.rs 47: SpeedTestMode::Ipv6 => todo!()
Ipv6Todo ==
  /\ pc = "start"
  /\ cli.mode = "Ipv6"
  /\ pc' = "panicked"
  /\ UNCHANGED << cli, addrs, progress_bar, nextIdx, streamDone, tpc, k, latencies,
                  start, sock, alive_addrs, report, now, started, sent, failed,
                  taskStart, taskEnd, unsorted >>

\* buffer_unordered takes the next future from the stream (main.rs 73-76, 98)
Spawn ==
  /\ pc = "probing"
  /\ ~streamDone
  /\ CanSpawn
  /\ nextIdx <= Len(addrs)
  /\ tpc' = [tpc EXCEPT ![nextIdx] = "ready"]
  /\ taskStart' = [taskStart EXCEPT ![nextIdx] = now]
  /\ nextIdx' = nextIdx + 1
  /\ UNCHANGED << cli, pc, addrs, progress_bar, streamDone, k, latencies, start, sock,
                  alive_addrs, report, now, started, sent, failed, taskEnd, unsorted >>

\* mutant of StreamEnd: the stream is polled whether or not a slot is free
StreamEndAlways ==
  /\ pc = "probing"
  /\ ~streamDone
  /\ nextIdx > Len(addrs)
  /\ streamDone' = TRUE
  /\ UNCHANGED << cli, pc, addrs, progress_bar, nextIdx, tpc, k, latencies, start,
                  sock, alive_addrs, report, now, started, sent, failed, taskStart,
                  taskEnd, unsorted >>

\* buffer_unordered polls the exhausted stream: the fuse records the end
StreamEnd ==
  /\ pc = "probing"
  /\ ~streamDone
  /\ CanSpawn
  /\ nextIdx > Len(addrs)
  /\ streamDone' = TRUE
  /\ UNCHANGED << cli, pc, addrs, progress_bar, nextIdx, tpc, k, latencies, start,
                  sock, alive_addrs, report, now, started, sent, failed, taskStart,
                  taskEnd, unsorted >>

\* mutant of RunLoop: the socket of the attempt that returned is never dropped
RunLoopLeak(i, kk, lats, nf) ==
  \E f \in 0..(IF LoopContinues(kk) THEN cli.attempts - kk ELSE 0) :
    LET kEnd == kk + f
        n == IF LoopContinues(kEnd) THEN f + 1 ELSE f
    IN /\ progress_bar' = PbIncTimes(progress_bar, n)
       /\ started' = [started EXCEPT ![i] = @ + n]
       /\ failed' = [failed EXCEPT ![i] = nf + f]
       /\ latencies' = [latencies EXCEPT ![i] = lats]
       /\ k' = [k EXCEPT ![i] = kEnd]
       /\ IF LoopContinues(kEnd)
          THEN /\ tpc' = [tpc EXCEPT ![i] = "bound"]
               /\ sock' = [sock EXCEPT ![i] = @ + 1]
               /\ UNCHANGED << alive_addrs, taskEnd >>
          ELSE /\ tpc' = [tpc EXCEPT ![i] = "finished"]
               /\ sock' = sock
               /\ alive_addrs' = alive_addrs \o TaskResult(addrs[i], lats)
               /\ taskEnd' = [taskEnd EXCEPT ![i] = now]

\* main.rs 78-95 and 171: the for loop of endpoint i runs on from kk resolved
\* attempts, lats collected latencies and nf failed attempts, up to its next
\* suspension: f binds fail in a row (each iteration ticks the bar, speedtest
\* returns Err at once), then either a bind succeeds and the future waits for
\* send_to, or the loop is over and the future yields its result, which
\* filter_map drops or collect pushes.
RunLoop(i, kk, lats, nf) ==
  \E f \in 0..(IF LoopContinues(kk) THEN cli.attempts - kk ELSE 0) :
    LET kEnd == kk + f
        n == IF LoopContinues(kEnd) THEN f + 1 ELSE f
    IN /\ progress_bar' = PbIncTimes(progress_bar, n)
       /\ started' = [started EXCEPT ![i] = @ + n]
       /\ failed' = [failed EXCEPT ![i] = nf + f]
       /\ latencies' = [latencies EXCEPT ![i] = lats]
       /\ k' = [k EXCEPT ![i] = kEnd]
       /\ IF LoopContinues(kEnd)
          THEN /\ tpc' = [tpc EXCEPT ![i] = "bound"]
               /\ sock' = [sock EXCEPT ![i] = 1]
               /\ UNCHANGED << alive_addrs, taskEnd >>
          ELSE /\ tpc' = [tpc EXCEPT ![i] = "finished"]
               /\ sock' = [sock EXCEPT ![i] = 0]
               /\ alive_addrs' = alive_addrs \o TaskResult(addrs[i], lats)
               /\ taskEnd' = [taskEnd EXCEPT ![i] = now]

\* the first poll of the future of endpoint i
FirstPoll(i) ==
  /\ pc = "probing"
  /\ tpc[i] = "ready"
  /\ RunLoop(i, 0, << >>, 0)
  /\ UNCHANGED << cli, pc, addrs, nextIdx, streamDone, start, report, now, sent,
                  taskStart, unsorted >>

\* mutant of SendOk: the wait is not awaited, the loop begins the next attempt
SendOkNoAwait(i) ==
  /\ pc = "probing"
  /\ tpc[i] = "bound"
  /\ tpc' = [tpc EXCEPT ![i] = "waiting"]
  /\ start' = [start EXCEPT ![i] = now]
  /\ sent' = sent + 1
  /\ started' = [started EXCEPT ![i] = @ + 1]
  /\ UNCHANGED << cli, pc, addrs, progress_bar, nextIdx, streamDone, k, latencies,
                  sock, alive_addrs, report, now, failed, taskStart, taskEnd,
                  unsorted >>

\* main.rs 173-177: send_to succeeds, the timer starts
SendOk(i) ==
  /\ pc = "probing"
  /\ tpc[i] = "bound"
  /\ tpc' = [tpc EXCEPT ![i] = "waiting"]
  /\ start' = [start EXCEPT ![i] = now]
  /\ sent' = sent + 1
  /\ UNCHANGED << cli, pc, addrs, progress_bar, nextIdx, streamDone, k, latencies,
                  sock, alive_addrs, report, now, started, failed, taskStart, taskEnd,
                  unsorted >>

\* main.rs 173: send_to(..).await? fails; the socket is dropped, speedtest returns Err
SendErr(i) ==
  /\ pc = "probing"
  /\ tpc[i] = "bound"
  /\ RunLoop(i, k[i] + 1, latencies[i], failed[i] + 1)
  /\ UNCHANGED << cli, pc, addrs, nextIdx, streamDone, start, report, now, sent,
                  taskStart, unsorted >>

\* main.rs 179-190, 82-84: a datagram arrives within the timed wait
RecvOk(i) ==
  /\ pc = "probing"
  /\ tpc[i] = "waiting"
  /\ RunLoop(i, k[i] + 1, Append(latencies[i], AsMillis(now - start[i])), failed[i])
  /\ UNCHANGED << cli, pc, addrs, nextIdx, streamDone, start, report, now, sent,
                  taskStart, unsorted >>

\* main.rs 191-194: recv_from returns an error
RecvErr(i) ==
  /\ pc = "probing"
  /\ tpc[i] = "waiting"
  /\ RunLoop(i, k[i] + 1, latencies[i], failed[i] + 1)
  /\ UNCHANGED << cli, pc, addrs, nextIdx, streamDone, start, report, now, sent,
                  taskStart, unsorted >>

\* mutant of Expired: the wait lasts one tick longer
ExpiredLate(i) == now - start[i] > Timeout

\* the timed wait of endpoint i has lasted the whole timeout
Expired(i) == now - start[i] >= Timeout

\* mutant of TimeoutElapsed: the error escapes the future and ends the run
TimeoutPropagates(i) ==
  /\ pc = "probing"
  /\ tpc[i] = "waiting"
  /\ Expired(i)
  /\ pc' = "panicked"
  /\ UNCHANGED << cli, addrs, progress_bar, nextIdx, streamDone, tpc, k, latencies,
                  start, sock, alive_addrs, report, now, started, sent, failed,
                  taskStart, taskEnd, unsorted >>

\* main.rs 195-202: the timeout elapses
TimeoutElapsed(i) ==
  /\ pc = "probing"
  /\ tpc[i] = "waiting"
  /\ Expired(i)
  /\ RunLoop(i, k[i] + 1, latencies[i], failed[i] + 1)
  /\ UNCHANGED << cli, pc, addrs, nextIdx, streamDone, start, report, now, sent,
                  taskStart, unsorted >>

\* main.rs 101-119: the stream ends; sort, finish the bar, log the summary
Collect ==
  /\ pc = "probing"
  /\ streamDone
  /\ InProgress = {}
  /\ unsorted' = alive_addrs
  /\ alive_addrs' = SortByKey(alive_addrs)
  /\ progress_bar' = IF progress_bar.some THEN [progress_bar EXCEPT !.finished = TRUE]
                     ELSE progress_bar
  /\ report' = [working |-> Len(alive_addrs'), total |-> cli.addresses,
                top |-> Take(alive_addrs', TopN)]
  /\ pc' = "done"
  /\ UNCHANGED << cli, addrs, nextIdx, streamDone, tpc, k, latencies, start, sock,
                  now, started, sent, failed, taskStart, taskEnd >>

\* an instantaneous step is enabled
Urgent ==
  \/ \E i \in Tasks : tpc[i] \in {"ready", "bound"}
  \/ ~streamDone /\ CanSpawn
  \/ streamDone /\ InProgress = {}

\* the clock advances while every live future is in its timed wait
Tick ==
  /\ pc = "probing"
  /\ ~Urgent
  /\ \E i \in Tasks : tpc[i] = "waiting"
  /\ \A i \in Tasks : tpc[i] = "waiting" => ~Expired(i)
  /\ now' = now + 1
  /\ UNCHANGED << cli, pc, addrs, progress_bar, nextIdx, streamDone, tpc, k, latencies,
                  start, sock, alive_addrs, report, started, sent, failed, taskStart,
                  taskEnd, unsorted >>

Next ==
  \/ Generate
  \/ Ipv6Todo
  \/ Spawn
  \/ StreamEnd
  \/ \E i \in Tasks : FirstPoll(i)
  \/ \E i \in Tasks : SendOk(i)
  \/ \E i \in Tasks : SendErr(i)
  \/ \E i \in Tasks : RecvOk(i)
  \/ \E i \in Tasks : RecvErr(i)
  \/ \E i \in Tasks : TimeoutElapsed(i)
  \/ Collect
  \/ Tick

Spec == Init /\ [][Next]_vars

\* The runs checked for liveness: configurations of at most MaxProbes - 1
\* probes, the progress bar present.
FairInit == InitWith(MaxProbes - 1, {FALSE})

\* Fairness: the runtime keeps polling the futures that can make progress, and
\* time passes.
FairSpec == FairInit /\ [][Next]_vars /\ WF_vars(Next)

\* timeout(..) polls recv_from before its timer (tokio::time::Timeout::poll), and
\* the future is polled when the runtime gets to it, not at the deadline: the
\* clock advances past the deadline of a wait that has not been polled yet.
TickLate ==
  /\ pc = "probing"
  /\ ~Urgent
  /\ \E i \in Tasks : tpc[i] = "waiting" /\ Expired(i)
  /\ \A i \in Tasks : tpc[i] = "waiting" => now - start[i] < Timeout + MaxLate
  /\ now' = now + 1
  /\ UNCHANGED << cli, pc, addrs, progress_bar, nextIdx, streamDone, tpc, k, latencies,
                  start, sock, alive_addrs, report, started, sent, failed, taskStart,
                  taskEnd, unsorted >>

\* The runs in which the runtime may poll an expired wait late: the
\* configurations of at most MaxProbes - 1 probes, the progress bar present.
LateInit == InitWith(MaxProbes - 1, {FALSE})

LateNext ==
  \/ Generate
  \/ Ipv6Todo
  \/ Spawn
  \/ StreamEnd
  \/ \E i \in Tasks : FirstPoll(i)
  \/ \E i \in Tasks : SendOk(i)
  \/ \E i \in Tasks : SendErr(i)
  \/ \E i \in Tasks : RecvOk(i)
  \/ \E i \in Tasks : RecvErr(i)
  \/ \E i \in Tasks : TimeoutElapsed(i)
  \/ Collect
  \/ Tick
  \/ TickLate

LateSpec == LateInit /\ [][LateNext]_vars

\* The runs that rank more endpoints than the summary lists:
\* --addresses MaxRanked --attempts 1 --threads 1, right after generate_ipv4
\* returned the first MaxRanked addresses of the whole universe, each with
\* the first port, and the progress bar and the stream were built.
TopInit ==
  /\ cli = [addresses |-> MaxRanked, attempts |-> 1, threads |-> 1, mode |-> "Ipv4",
            debug |-> FALSE]
  /\ pc = "probing"
  /\ addrs = [j \in 1..MaxRanked |->
                [ip |-> FlatMap(v4_ranges, 1)[j], port |-> PortsAll[1]]]
  /\ progress_bar = [some |-> TRUE, len |-> MaxRanked, pos |-> 0, finished |-> FALSE]
  /\ nextIdx = 1
  /\ streamDone = FALSE
  /\ tpc = [i \in 1..MaxRanked |-> "pending"]
  /\ k = [i \in 1..MaxRanked |-> 0]
  /\ latencies = [i \in 1..MaxRanked |-> << >>]
  /\ start = [i \in 1..MaxRanked |-> 0]
  /\ sock = [i \in 1..MaxRanked |-> 0]
  /\ alive_addrs = << >>
  /\ report = [working |-> 0, total |-> 0, top |-> << >>]
  /\ now = 0
  /\ started = [i \in 1..MaxRanked |-> 0]
  /\ sent = 0
  /\ failed = [i \in 1..MaxRanked |-> 0]
  /\ taskStart = [i \in 1..MaxRanked |-> 0]
  /\ taskEnd = [i \in 1..MaxRanked |-> 0]
  /\ unsorted = << >>

\* main.rs 73-119: the steps of a run after the candidates were generated
TopNext ==
  \/ Spawn
  \/ StreamEnd
  \/ \E i \in Tasks : FirstPoll(i)
  \/ \E i \in Tasks : SendOk(i)
  \/ \E i \in Tasks : SendErr(i)
  \/ \E i \in Tasks : RecvOk(i)
  \/ \E i \in Tasks : RecvErr(i)
  \/ \E i \in Tasks : TimeoutElapsed(i)
  \/ Collect
  \/ Tick

TopSpec == TopInit /\ [][TopNext]_vars

(* ------------------------------ claims --------------------------------- *)
\* attempts of endpoint i that succeeded
Successes(i) == k[i] - failed[i]

\* C1: in every reachable state the number of endpoint futures that have been
\* started and have not yet produced their result is at most --threads.
C1_ConcurrencyBound == Cardinality(InProgress) <= cli.threads

\* the gate is full while candidates are still waiting for a slot
C1_Witness ==
  /\ pc = "probing"
  /\ cli.threads >= 2
  /\ Cardinality(InProgress) = cli.threads
  /\ nextIdx <= Len(addrs)
  /\ \E i \in Tasks : tpc[i] = "waiting"

\* C2: within one endpoint the attempts are strictly sequential: at every
\* moment an endpoint has at most one attempt begun and not resolved, exactly
\* when its future holds a socket (bound or waiting), and an attempt begins only
\* when all earlier ones have resolved.
C2_SequentialAttempts ==
  \A i \in Tasks :
    /\ started[i] - k[i] \in {0, 1}
    /\ (started[i] - k[i] = 1) <=> (tpc[i] \in {"bound", "waiting"})
    /\ sock[i] <= 1

\* a second attempt of an endpoint is outstanding after its first one resolved
C2_Witness ==
  \E i \in Tasks : tpc[i] = "waiting" /\ k[i] >= 1 /\ started[i] = k[i] + 1

\* number of entries of s for the endpoint a
CountAddr(s, a) == Cardinality({j \in DOMAIN s : s[j].addr = a})

\* C3: when the run completes the result list holds exactly one entry for every
\* candidate with at least one successful attempt, none for the others, and
\* nothing else.
C3_ScoreIffSuccess ==
  pc = "done" =>
    /\ \A i \in Tasks :
         CountAddr(alive_addrs, addrs[i]) = (IF Successes(i) >= 1 THEN 1 ELSE 0)
    /\ \A j \in DOMAIN alive_addrs : \E i \in Tasks : alive_addrs[j].addr = addrs[i]

\* a completed run with one endpoint kept and one dropped after failed attempts
C3_Witness ==
  /\ pc = "done"
  /\ \E i, j \in Tasks :
       /\ Successes(i) >= 1
       /\ Successes(j) = 0
       /\ failed[j] >= 1
  /\ Len(alive_addrs) = 1

\* C4: the latency reported for an endpoint is the truncated quotient of the sum
\* of its successful latencies by the number of its successful attempts; failed
\* attempts count in neither.
C4_AverageOfSuccesses ==
  \A j \in DOMAIN alive_addrs :
    \E i \in Tasks :
      /\ alive_addrs[j].addr = addrs[i]
      /\ Len(latencies[i]) = Successes(i)
      /\ Successes(i) >= 1
      /\ alive_addrs[j].latency * Successes(i) <= Sum(latencies[i])
      /\ Sum(latencies[i]) < (alive_addrs[j].latency + 1) * Successes(i)

\* an endpoint with failed attempts whose mean is not a whole number
C4_Witness ==
  /\ pc = "done"
  /\ \E i \in Tasks :
       /\ failed[i] >= 1
       /\ Successes(i) >= 2
       /\ Sum(latencies[i]) % Successes(i) # 0
       /\ CountAddr(alive_addrs, addrs[i]) = 1

\* C5: when the run completes, the progress bar has been ticked
\* candidateCount * attemptsPerEndpoint times.
C5_TotalTicks ==
  (pc = "done" /\ progress_bar.some) =>
    progress_bar.pos = cli.addresses * cli.attempts

\* C6: after an attempt has failed (timeout or transport error) the run is not
\* aborted: it goes on to the completed state, in which every endpoint has
\* made all of its attempts.
C6_FailuresAbsorbed ==
  (\E i \in Tasks : failed[i] >= 1) ~>
    (pc = "done" /\ \A i \in Tasks : tpc[i] = "finished" /\ k[i] = cli.attempts)

\* a completed run in which an endpoint had failed attempts and successful ones
C6_Witness ==
  /\ pc = "done"
  /\ \E i \in Tasks : failed[i] >= 1 /\ Successes(i) >= 1

\* C7: with --threads >= 1 and a candidate count within the universe, the run
\* eventually completes: every endpoint has finished all of its attempts and
\* the summary has been produced.
C7_Terminates ==
  (pc = "start" /\ cli.mode = "Ipv4" /\ cli.threads >= 1
     /\ cli.addresses <= UniverseSize) ~>
    (/\ pc = "done"
     /\ Len(addrs) = cli.addresses
     /\ \A i \in Tasks : tpc[i] = "finished" /\ k[i] = cli.attempts
     /\ report.working = Len(alive_addrs))

\* a completed run of more endpoints than threads
C7_Witness ==
  /\ pc = "done"
  /\ cli.threads >= 1
  /\ Len(addrs) > cli.threads
  /\ cli.attempts >= 1

Ceil(a, b) == (a + b - 1) \div b

InBlock(ip) ==
  \E j \in DOMAIN v4_ranges :
    /\ <<ip[1], ip[2], ip[3]>> = v4_ranges[j]
    /\ ip[4] \in 0..(Pow2(32 - PrefixLen) - 1)

\* C9: for a count within the universe, generate_ipv4 returns exactly that
\* many endpoints, with pairwise distinct addresses, each in a configured block
\* and with a port of the port list.
C9_GenerateDistinct ==
  (pc \in {"probing", "done"} /\ cli.addresses <= UniverseSize) =>
    /\ Len(addrs) = cli.addresses
    /\ \A i, j \in DOMAIN addrs : i # j => addrs[i].ip # addrs[j].ip
    /\ \A i \in DOMAIN addrs : InBlock(addrs[i].ip) /\ addrs[i].port \in Range(PortsAll)

\* a sample of two or more in which a later address has replaced an earlier one
C9_Witness ==
  /\ pc = "probing"
  /\ cli.addresses >= 2
  /\ cli.addresses < UniverseSize
  /\ Len(addrs) = cli.addresses
  /\ addrs[1].ip = all_ips[UniverseSize]

\* C10: when the requested count exceeds the universe, the run aborts: it
\* never probes, never ticks and never completes.
C10_AbortsOverUniverse ==
  cli.addresses > UniverseSize =>
    /\ pc \notin {"probing", "done"}
    /\ sent = 0
    /\ progress_bar.pos = 0

\* C11: when IPv6 is requested the run stops with the panic of todo!() before
\* any candidate is generated, socket opened, probe sent or tick emitted, and
\* never completes.
C11_Ipv6FailsFast ==
  cli.mode = "Ipv6" =>
    /\ pc \in {"start", "panicked"}
    /\ addrs = << >>
    /\ Tasks = {}
    /\ sent = 0
    /\ progress_bar = NoBar
    /\ alive_addrs = << >>

\* the IPv6 run has panicked
C11_Witness == cli.mode = "Ipv6" /\ pc = "panicked" /\ cli.addresses >= 1

\* number of entries of s equal to x
CountEntry(s, x) == Cardinality({j \in DOMAIN s : s[j] = x})

\* C12: the ranked list is a permutation of the collected results, whatever
\* their completion order, and is non-decreasing in latency.
C12_RankSorted ==
  pc = "done" =>
    /\ Len(alive_addrs) = Len(unsorted)
    /\ \A j \in DOMAIN unsorted :
         CountEntry(alive_addrs, unsorted[j]) = CountEntry(unsorted, unsorted[j])
    /\ \A j \in 1..(Len(alive_addrs) - 1) :
         alive_addrs[j].latency <= alive_addrs[j + 1].latency

\* results collected out of latency order have been ranked
C12_Witness ==
  /\ pc = "done"
  /\ Len(unsorted) >= 2
  /\ \E j \in 1..(Len(unsorted) - 1) : unsorted[j].latency > unsorted[j + 1].latency
  /\ \E j \in 1..(Len(unsorted) - 1) : unsorted[j].latency = unsorted[j + 1].latency

\* C13: the reported top list is the prefix of the ranked list of length
\* min(5, number of surviving scores): at most 5 entries, in ranked order, and
\* no entry left out has a strictly lower average latency than a listed one.
C13_TopIsPrefix ==
  pc = "done" =>
    /\ Len(report.top) = (IF Len(alive_addrs) < 5 THEN Len(alive_addrs) ELSE 5)
    /\ \A j \in DOMAIN report.top : report.top[j] = alive_addrs[j]
    /\ \A j \in DOMAIN alive_addrs : \A t \in DOMAIN report.top :
         j > Len(report.top) => alive_addrs[j].latency >= report.top[t].latency

\* more than 5 endpoints survive, collected out of latency order, and the
\* slowest is left out
C13_Witness ==
  /\ pc = "done"
  /\ Len(alive_addrs) > 5
  /\ unsorted # alive_addrs
  /\ alive_addrs[Len(alive_addrs)].latency > alive_addrs[1].latency
  /\ Len(report.top) = 5

\* C14: on completion the summary reports (working, total): working is the
\* number of candidates with at least one successful attempt, total is the
\* number of candidates that were generated and probed, and working <= total.
C14_SummaryCounts ==
  pc = "done" =>
    /\ report.working = Cardinality({i \in Tasks : Successes(i) >= 1})
    /\ report.total = Len(addrs)
    /\ report.working <= report.total

\* C15: a probe holds one socket from its bind to its return, whatever the
\* exit (success, timeout, send error, receive error): in every reachable
\* state the open sockets are at most the endpoint tasks in flight, which are
\* at most --threads, and no socket is open when the run completes.
C15_SocketsScoped ==
  /\ \A i \in Tasks : sock[i] = (IF tpc[i] \in {"bound", "waiting"} THEN 1 ELSE 0)
  /\ Sum(sock) <= Cardinality(InProgress)
  /\ Cardinality(InProgress) <= cli.threads
  /\ pc = "done" => Sum(sock) = 0

\* two sockets are open at once, one of them the second of its endpoint
C15_Witness ==
  /\ Sum(sock) = 2
  /\ \E i \in Tasks : sock[i] = 1 /\ k[i] >= 1

\* C16: every latency a successful probe reports lies in [0, timeout], and so
\* does every average latency of the result list.
C16_LatencyWithinTimeout ==
  /\ \A i \in Tasks : \A j \in DOMAIN latencies[i] :
       0 <= latencies[i][j] /\ latencies[i][j] <= TimeoutSecs * 1000
  /\ \A j \in DOMAIN alive_addrs :
       0 <= alive_addrs[j].latency /\ alive_addrs[j].latency <= TimeoutSecs * 1000

\* C17: every candidate endpoint is probed exactly --attempts times whatever
\* the outcomes: the loop never issues an extra attempt, and it stops neither
\* after a success nor after a failure.
C17_ExactlyAttempts ==
  /\ \A i \in Tasks : k[i] <= started[i] /\ started[i] <= cli.attempts
  /\ \A i \in Tasks :
       tpc[i] = "finished" => started[i] = cli.attempts /\ k[i] = cli.attempts
  /\ pc = "done" => \A i \in Tasks : tpc[i] = "finished"

\* a run has completed in which one endpoint had a failure then a success, or
\* a success then a failure, and another endpoint failed every attempt
C17_Witness ==
  /\ pc = "done"
  /\ cli.attempts >= 2
  /\ \E i, j \in Tasks :
       /\ failed[i] >= 1 /\ Successes(i) >= 1
       /\ failed[j] = cli.attempts

\* the scores that the candidates and the latencies measured by the
\* successful attempts determine (main.rs 82-95)
ExpectedScores ==
  { [addr |-> addrs[i], latency |-> Sum(latencies[i]) \div Len(latencies[i])] :
      i \in {t \in Tasks : latencies[t] # << >>} }

\* C18: progress reporting does not influence the results. With the bar
\* present and with none (debug logging enabled) alike, every endpoint is
\* probed --attempts times and the set of scores is the one the candidates and
\* the per-attempt outcomes determine; neither depends on the bar.
C18_ProgressNoInfluence ==
  /\ pc \in {"probing", "done"} => progress_bar.some = ~cli.debug
  /\ \A i \in Tasks : tpc[i] = "finished" => started[i] = cli.attempts
  /\ pc = "done" =>
       /\ Range(alive_addrs) = ExpectedScores
       /\ Len(alive_addrs) = Cardinality(ExpectedScores)

\* a run without a bar has completed with a score and a failed attempt
C18_Witness ==
  /\ pc = "done"
  /\ cli.debug
  /\ progress_bar = NoBar
  /\ alive_addrs # << >>
  /\ \E i \in Tasks : failed[i] >= 1

\* C19: the result does not depend on the schedule. Whatever the interleaving
\* and the order of completion, the (endpoint, average) pairs are the ones the
\* candidates and the per-attempt outcomes determine, and the latency at every
\* rank is the one their sorted averages put there; only entries with equal
\* averages may come in either order.
C19_ScheduleIndependent ==
  pc = "done" =>
    /\ \A e \in ExpectedScores : CountEntry(alive_addrs, e) = 1
    /\ \A p \in DOMAIN alive_addrs :
         /\ alive_addrs[p] \in ExpectedScores
         /\ Cardinality({e \in ExpectedScores : e.latency < alive_addrs[p].latency}) < p
         /\ p <= Cardinality({e \in ExpectedScores : e.latency <= alive_addrs[p].latency})

\* the second candidate completed before the first and with the larger average,
\* so the ranking reverses the order of completion
C19_Witness ==
  /\ pc = "done"
  /\ Len(unsorted) >= 2
  /\ unsorted[1].addr = addrs[2]
  /\ unsorted[2].addr = addrs[1]
  /\ unsorted[1].latency > unsorted[2].latency

\* C20: with --threads 0 no endpoint task is ever started: no probe is sent, no
\* tick is emitted, and the run never completes, whatever the number of
\* candidates, zero included.
C20_ZeroThreadsStalls ==
  cli.threads = 0 =>
    /\ pc # "done"
    /\ \A i \in Tasks : tpc[i] = "pending" /\ started[i] = 0 /\ sock[i] = 0
    /\ sent = 0
    /\ progress_bar.pos = 0
    /\ ~streamDone
    /\ alive_addrs = << >>

\* the candidates are there, the stream is built, and nothing can start
C20_Witness ==
  /\ cli.threads = 0
  /\ pc = "probing"
  /\ Len(addrs) >= 1
  /\ cli.attempts >= 1
  /\ ~ENABLED Next

====
